---- MODULE Spec2Model ----
(***************************************************************************)
(* Medical visa slot monitor: the notification filter (notification.ts)    *)
(* and the service loop (service.ts).                                      *)
(*                                                                         *)
(* Text that the code inspects character by character (names, distances,   *)
(* availability text, config dates) is a sequence of one-character         *)
(* strings.  Text that is only compared for equality or tested for         *)
(* truthiness (ids, states, addresses) is a TLA+ string; "" stands for    *)
(* both the empty string and an absent optional field, which JavaScript    *)
(* treats alike in every test the code makes (`if (place.locationId)`).    *)
(***************************************************************************)
EXTENDS Integers, Sequences, FiniteSets, Bags, TLC

(***************************************************************************)
(* Bounds of the model.                                                    *)
(***************************************************************************)
MaxInFlight == 2
MaxTimers == 2
MaxLocations == 2
MaxPlaces == 2
MaxRuns == 2

VARIABLES
  tz,                \* time zone of the process (TZ of the host)
  configFile,        \* config.json: the parsed configuration, or NoFile
  resultsFile,       \* latest-medical-visa-results.json, or NoFile
  notificationFile,  \* notification-result.json, or NoFile
  runner,            \* notification-runner.ts: the one-shot process
  isRunning,         \* MedicalVisaSlotService.isRunning
  intervalId,        \* MedicalVisaSlotService.intervalId, NoTimer for null
  timers,            \* the setInterval timers that are armed
  cycles,            \* bag of the performCheck invocations in flight
  lastCheck          \* the performCheck invocation that returned last

vars == <<tz, configFile, resultsFile, notificationFile, runner,
          isRunning, intervalId, timers, cycles, lastCheck>>

serviceVars == <<isRunning, intervalId, timers, cycles, lastCheck>>

(***************************************************************************)
(* JavaScript string primitives.                                           *)
(***************************************************************************)
UpperCase ==
  <<"A", "B", "C", "D", "E", "F", "G", "H", "I", "J", "K", "L", "M",
    "N", "O", "P", "Q", "R", "S", "T", "U", "V", "W", "X", "Y", "Z">>

LowerCase ==
  <<"a", "b", "c", "d", "e", "f", "g", "h", "i", "j", "k", "l", "m",
    "n", "o", "p", "q", "r", "s", "t", "u", "v", "w", "x", "y", "z">>

Digits == <<"0", "1", "2", "3", "4", "5", "6", "7", "8", "9">>

UpperCaseSet == { UpperCase[k] : k \in 1..26 }

DigitSet == { Digits[k] : k \in 1..10 }

\* The lower-case letter of each upper-case letter.
LowerOf == [c \in UpperCaseSet |->
              LowerCase[CHOOSE k \in 1..26 : UpperCase[k] = c]]

\* The value of each digit character.
ValueOf == [c \in DigitSet |-> (CHOOSE k \in 1..10 : Digits[k] = c) - 1]

IsDigit(c) == c \in DigitSet

DigitValue(c) == ValueOf[c]

\* String.prototype.toLowerCase
toLowerCase(s) ==
  [i \in 1..Len(s) |-> IF s[i] \in UpperCaseSet THEN LowerOf[s[i]] ELSE s[i]]

\* String.prototype.includes
includes(s, sub) ==
  \E i \in 1..(Len(s) - Len(sub) + 1) : SubSeq(s, i, i + Len(sub) - 1) = sub

\* String.prototype.split with a one-character separator
RECURSIVE split(_, _)
split(s, sep) ==
  IF \A i \in 1..Len(s) : s[i] # sep
  THEN <<s>>
  ELSE LET k == CHOOSE i \in 1..Len(s) :
                   s[i] = sep /\ \A j \in 1..(i - 1) : s[j] # sep
       IN <<SubSeq(s, 1, k - 1)>> \o split(SubSeq(s, k + 1, Len(s)), sep)

\* NaN, the value parseInt yields when its argument has no leading digit;
\* no number the parsers produce is negative, so it cannot be mistaken.
NaN == -1000000

\* x - y in JavaScript arithmetic: NaN is absorbing.
Minus(x, y) == IF x = NaN \/ y = NaN THEN NaN ELSE x - y

\* Value of a non-empty run of digits.
RECURSIVE DigitsValue(_)
DigitsValue(s) ==
  IF Len(s) = 0 THEN 0
  ELSE 10 * DigitsValue(SubSeq(s, 1, Len(s) - 1)) + DigitValue(s[Len(s)])

\* Length of the longest prefix of s made of digits.
DigitPrefixLen(s) ==
  CHOOSE n \in 0..Len(s) :
    /\ \A i \in 1..n : IsDigit(s[i])
    /\ (n < Len(s) => ~IsDigit(s[n + 1]))

\* parseInt on text without sign or leading blanks: the leading digits.
parseInt(s) ==
  LET n == DigitPrefixLen(s)
  IN IF n = 0 THEN NaN ELSE DigitsValue(SubSeq(s, 1, n))

(***************************************************************************)
(* JavaScript Date.  A Date is a record: kind "null" for the null the      *)
(* parser returns, "invalid" for an Invalid Date (NaN time value), "date"  *)
(* for a real instant whose time is getTime() in hours.  Dates are built   *)
(* with new Date(year, monthIndex, day), which is local midnight in the    *)
(* time zone the process runs in.                                          *)
(***************************************************************************)
TimeZones == {"Australia/Perth", "Australia/Sydney"}

HoursPerDay == 24

NullDate == [kind |-> "null", time |-> 0]

InvalidDate == [kind |-> "invalid", time |-> 0]

\* Days from 1970-01-01 to the civil date y-m-d (proleptic Gregorian);
\* m in 1..12, d any integer (days past the month's end run on).
DaysFromCivil(y, m, d) ==
  LET yy  == IF m <= 2 THEN y - 1 ELSE y
      era == yy \div 400
      yoe == yy - era * 400
      mp  == (m + 9) % 12
      doy == (153 * mp + 2) \div 5 + d - 1
      doe == yoe * 365 + yoe \div 4 - yoe \div 100 + doy
  IN era * 146097 + doe - 719468

\* Day of the week of a day number, 0 = Sunday.
WeekDay(dayNumber) == (dayNumber + 4) % 7

FirstSunday(y, m) ==
  LET first == DaysFromCivil(y, m, 1)
  IN first + ((7 - WeekDay(first)) % 7)

\* Offset from UTC, in hours, in force at local midnight of a day.  Perth
\* keeps UTC+8 all year.  Sydney keeps UTC+10 and moves to UTC+11 from
\* 02:00 on the first Sunday of October to 03:00 on the first Sunday of
\* April, so midnight of the October Sunday is still standard time and
\* midnight of the April Sunday is still daylight time.
UtcOffsetHours(zone, dayNumber) ==
  IF zone = "Australia/Perth" THEN 8
  ELSE IF \E y \in (1968 + dayNumber \div 366)..(1971 + dayNumber \div 365) :
            /\ FirstSunday(y, 10) < dayNumber
            /\ dayNumber <= FirstSunday(y + 1, 4)
       THEN 11
       ELSE 10

\* new Date(year, monthIndex, day) in the given zone.  Years 0..99 mean
\* 1900..1999; a month index outside 0..11 and a day outside the month
\* carry over.
NewDate(year, monthIndex, day) ==
  IF year = NaN \/ monthIndex = NaN \/ day = NaN THEN InvalidDate
  ELSE LET y0 == IF year >= 0 /\ year <= 99 THEN 1900 + year ELSE year
           y  == y0 + (monthIndex \div 12)
           m  == (monthIndex % 12) + 1
           dn == DaysFromCivil(y, m, 1) + (day - 1)
       IN [kind |-> "date",
           time |-> dn * HoursPerDay - UtcOffsetHours(tz, dn)]

(***************************************************************************)
(* notification.ts: parsing.                                               *)
(***************************************************************************)
NoAvailableSlot ==
  <<"N", "o", " ", "a", "v", "a", "i", "l", "a", "b", "l", "e", " ",
    "s", "l", "o", "t">>

AllDigits(s, from, to) == \A k \in from..to : IsDigit(s[k])

\* /(\d{1,2}\/\d{1,2}\/\d{4})/ anchored at position i with a day of a
\* digits and a month of b digits.
DatePatternAt(s, i, a, b) ==
  /\ i + a + b + 5 <= Len(s)
  /\ AllDigits(s, i, i + a - 1)
  /\ s[i + a] = "/"
  /\ AllDigits(s, i + a + 1, i + a + b)
  /\ s[i + a + b + 1] = "/"
  /\ AllDigits(s, i + a + b + 2, i + a + b + 5)

\* availability.match(...): the first (leftmost, greedy) match, or <<>>.
DateMatch(s) ==
  LET starts == { i \in 1..Len(s) :
                    IsDigit(s[i]) /\ \E a \in 1..2, b \in 1..2 :
                                        DatePatternAt(s, i, a, b) }
  IN IF starts = {} THEN <<>>
     ELSE LET i == CHOOSE i0 \in starts : \A j \in starts : i0 <= j
              a == IF \E b \in 1..2 : DatePatternAt(s, i, 2, b) THEN 2 ELSE 1
              b == IF DatePatternAt(s, i, a, 2) THEN 2 ELSE 1
          IN SubSeq(s, i, i + a + b + 5)

parseAvailabilityDate(availability) ==
  IF availability = <<>> \/ availability = NoAvailableSlot THEN NullDate
  ELSE LET dateMatch == DateMatch(availability)
       IN IF dateMatch = <<>> THEN NullDate
          ELSE LET parts == split(dateMatch, "/")
               IN NewDate(parseInt(parts[3]), Minus(parseInt(parts[2]), 1),
                          parseInt(parts[1]))

\* parseInt(undefined) is NaN: a part the split did not produce.
PartOrNaN(parts, k) == IF k <= Len(parts) THEN parseInt(parts[k]) ELSE NaN

parseConfigDate(dateStr) ==
  LET parts == split(dateStr, "-")
  IN NewDate(PartOrNaN(parts, 1), Minus(PartOrNaN(parts, 2), 1),
             PartOrNaN(parts, 3))

\* distance.match(/(\d+)/): the first run of digits, 0 when there is none.
parseDistance(distance) ==
  IF \A i \in 1..Len(distance) : ~IsDigit(distance[i]) THEN 0
  ELSE LET k == CHOOSE i \in 1..Len(distance) :
                  IsDigit(distance[i]) /\ \A j \in 1..(i - 1) : ~IsDigit(distance[j])
       IN parseInt(SubSeq(distance, k, Len(distance)))

(***************************************************************************)
(* notification.ts: the slot matcher.                                      *)
(*                                                                         *)
(* LocationData    [id, name, distance, availability, isAvailable,         *)
(*                  searchLocation : [state]]   (state "" when the record  *)
(*                  carries no searchLocation: undefined !== place.state)  *)
(* NotificationPlace [locationId, locationName, state, maxDistance]        *)
(* ExistingSlot    [present, locationId, locationName, date]               *)
(* ExpectedSlot    [present, locationId, locationName, date]               *)
(* fullName and address are only printed, never tested, and are left out.  *)
(***************************************************************************)
matchesNotificationPlace(location, place) ==
  IF place.locationId # "" /\ location.id = place.locationId THEN TRUE
  ELSE IF /\ place.locationName # <<>>
          /\ ~includes(toLowerCase(location.name),
                       toLowerCase(place.locationName))
       THEN FALSE
  ELSE IF place.state # "" /\ location.searchLocation.state # place.state
       THEN FALSE
  ELSE IF /\ place.maxDistance # <<>>
          /\ parseDistance(location.distance) > parseDistance(place.maxDistance)
       THEN FALSE
  ELSE TRUE

\* a < b on two Dates: false when either time value is NaN.
DateLess(a, b) == a.kind = "date" /\ b.kind = "date" /\ a.time < b.time

\* The test of the `if` at lines 102-108: the record is at the existing
\* slot's location.
SameLocationAsExisting(location, existingSlot) ==
  \/ existingSlot.locationId # "" /\ location.id = existingSlot.locationId
  \/ /\ existingSlot.locationName # <<>>
     /\ includes(toLowerCase(location.name),
                 toLowerCase(existingSlot.locationName))

\* A comparison that lets the existing slot's own day count as better.
isBetterThanExistingSameDay(location, existingSlot) ==
  LET locationDate == parseAvailabilityDate(location.availability)
      existingDate == parseConfigDate(existingSlot.date)
  IN IF locationDate.kind = "null" THEN FALSE
     ELSE IF SameLocationAsExisting(location, existingSlot)
          THEN ~DateLess(existingDate, locationDate)
     ELSE TRUE

\* A comparison that asks for an earlier date at every location.
isBetterThanExistingEarlierOnly(location, existingSlot) ==
  LET locationDate == parseAvailabilityDate(location.availability)
      existingDate == parseConfigDate(existingSlot.date)
  IN IF locationDate.kind = "null" THEN FALSE
     ELSE DateLess(locationDate, existingDate)

isBetterThanExisting(location, existingSlot) ==
  LET locationDate == parseAvailabilityDate(location.availability)
      existingDate == parseConfigDate(existingSlot.date)
  IN IF locationDate.kind = "null" THEN FALSE
     ELSE IF SameLocationAsExisting(location, existingSlot)
          THEN DateLess(locationDate, existingDate)
     ELSE TRUE

ToleranceDays == 7

\* Math.abs((a - b) / one day) > 7, false when either time value is NaN.
MoreThanToleranceApart(a, b) ==
  /\ a.kind = "date" /\ b.kind = "date"
  /\ (IF a.time >= b.time THEN a.time - b.time ELSE b.time - a.time)
       > ToleranceDays * HoursPerDay

\* A match that skips the test of lines 144-146 for a record without a date.
matchesExpectedSlotUndated(location, expectedSlot) ==
  IF expectedSlot.locationId # "" /\ location.id # expectedSlot.locationId
  THEN FALSE
  ELSE IF /\ expectedSlot.locationName # <<>>
          /\ ~includes(toLowerCase(location.name),
                       toLowerCase(expectedSlot.locationName))
       THEN FALSE
  ELSE IF expectedSlot.date # <<>>
       THEN ~MoreThanToleranceApart(
               parseAvailabilityDate(location.availability),
               parseConfigDate(expectedSlot.date))
  ELSE TRUE

matchesExpectedSlot(location, expectedSlot) ==
  IF expectedSlot.locationId # "" /\ location.id # expectedSlot.locationId
  THEN FALSE
  ELSE IF /\ expectedSlot.locationName # <<>>
          /\ ~includes(toLowerCase(location.name),
                       toLowerCase(expectedSlot.locationName))
       THEN FALSE
  ELSE IF expectedSlot.date # <<>>
       THEN LET locationDate == parseAvailabilityDate(location.availability)
                expectedDate == parseConfigDate(expectedSlot.date)
            IN IF locationDate.kind = "null" THEN FALSE
               ELSE ~MoreThanToleranceApart(locationDate, expectedDate)
  ELSE TRUE

(***************************************************************************)
(* notification.ts: the notification filter.                               *)
(***************************************************************************)
\* A filter that asks a record to match every rule.
isRelevantToEveryRule(location, notificationConfig) ==
  \A k \in 1..Len(notificationConfig.placesToNotify) :
    matchesNotificationPlace(location, notificationConfig.placesToNotify[k])

\* placesToNotify.some((place) => matchesNotificationPlace(location, place))
isRelevant(location, notificationConfig) ==
  \E k \in 1..Len(notificationConfig.placesToNotify) :
    matchesNotificationPlace(location, notificationConfig.placesToNotify[k])

\* The three lists the loop of lines 204-231 has built after it has gone
\* through the first n records of availableLocations.
RECURSIVE FilterLoop(_, _, _)
FilterLoop(availableLocations, notificationConfig, n) ==
  IF n = 0
  THEN [relevantSlots |-> <<>>, betterThanExisting |-> <<>>,
        matchesExpected |-> <<>>]
  ELSE LET before   == FilterLoop(availableLocations, notificationConfig, n - 1)
           location == availableLocations[n]
       IN IF ~isRelevant(location, notificationConfig) THEN before
          ELSE [relevantSlots |-> Append(before.relevantSlots, location),
                betterThanExisting |->
                  IF /\ notificationConfig.existingSlot.present
                     /\ isBetterThanExisting(location,
                                             notificationConfig.existingSlot)
                  THEN Append(before.betterThanExisting, location)
                  ELSE before.betterThanExisting,
                matchesExpected |->
                  IF /\ notificationConfig.expectedSlot.present
                     /\ matchesExpectedSlot(location,
                                            notificationConfig.expectedSlot)
                  THEN Append(before.matchesExpected, location)
                  ELSE before.matchesExpected]

(***************************************************************************)
(* TypeErrors of the classification.  A record of a results file may lack  *)
(* a field: reading `.toLowerCase` or `.match` of undefined throws, and     *)
(* nothing in notification.ts catches it.                                  *)
(***************************************************************************)
\* The value of a property the record does not have.
Undefined == <<"undefined">>

\* matchesNotificationPlace throws: line 60 (location.name.toLowerCase)
\* or line 77 via line 42 (distance.match).
matchesNotificationPlaceThrows(location, place) ==
  IF place.locationId # "" /\ location.id = place.locationId THEN FALSE
  ELSE IF place.locationName # <<>> /\ location.name = Undefined THEN TRUE
  ELSE IF /\ place.locationName # <<>>
          /\ ~includes(toLowerCase(location.name),
                       toLowerCase(place.locationName))
       THEN FALSE
  ELSE IF place.state # "" /\ location.searchLocation.state # place.state
       THEN FALSE
  ELSE place.maxDistance # <<>> /\ location.distance = Undefined

\* Array.prototype.some of lines 206-208 throws: it goes through the rules
\* in order and stops at the first that matches.
RECURSIVE someThrows(_, _, _)
someThrows(location, placesToNotify, j) ==
  IF j > Len(placesToNotify) THEN FALSE
  ELSE IF matchesNotificationPlaceThrows(location, placesToNotify[j]) THEN TRUE
  ELSE IF matchesNotificationPlace(location, placesToNotify[j]) THEN FALSE
  ELSE someThrows(location, placesToNotify, j + 1)

\* isBetterThanExisting throws: lines 105-107.
isBetterThanExistingThrows(location, existingSlot) ==
  IF parseAvailabilityDate(location.availability).kind = "null" THEN FALSE
  ELSE IF existingSlot.locationId # "" /\ location.id = existingSlot.locationId
       THEN FALSE
  ELSE existingSlot.locationName # <<>> /\ location.name = Undefined

\* matchesExpectedSlot throws: lines 131-133.
matchesExpectedSlotThrows(location, expectedSlot) ==
  IF expectedSlot.locationId # "" /\ location.id # expectedSlot.locationId
  THEN FALSE
  ELSE expectedSlot.locationName # <<>> /\ location.name = Undefined

\* The body of the loop of lines 204-231 throws for this record.
RecordThrows(location, notificationConfig) ==
  IF someThrows(location, notificationConfig.placesToNotify, 1) THEN TRUE
  ELSE IF ~isRelevant(location, notificationConfig) THEN FALSE
  ELSE \/ /\ notificationConfig.existingSlot.present
          /\ isBetterThanExistingThrows(location,
                                        notificationConfig.existingSlot)
       \/ /\ notificationConfig.expectedSlot.present
          /\ matchesExpectedSlotThrows(location,
                                       notificationConfig.expectedSlot)

\* filterResultsForNotification throws instead of returning.
ClassificationThrows(crawlResults, notificationConfig) ==
  \E k \in 1..Len(crawlResults.availableLocations) :
    RecordThrows(crawlResults.availableLocations[k], notificationConfig)

\* A decision that ignores onlyBetterSlots.
shouldNotifyAnyRelevant(onlyBetterSlots, relevantSlots, betterThanExisting, matchesExpected) ==
  Len(relevantSlots) > 0

\* Lines 234-236.
shouldNotify(onlyBetterSlots, relevantSlots, betterThanExisting, matchesExpected) ==
  IF onlyBetterSlots
  THEN Len(betterThanExisting) > 0 \/ Len(matchesExpected) > 0
  ELSE Len(relevantSlots) > 0

\* Lines 239-258.  The message is kept as its parts: found is FALSE for
\* "No relevant slots found."; otherwise the text is "Found " followed by
\* the parts joined with " and ".
summaryMessage(notify, relevantSlots, betterThanExisting, matchesExpected) ==
  IF ~notify THEN [found |-> FALSE, parts |-> <<>>]
  ELSE LET p1 == IF Len(betterThanExisting) > 0
                 THEN <<[what |-> "better", count |-> Len(betterThanExisting)]>>
                 ELSE <<>>
           p2 == IF Len(matchesExpected) > 0
                 THEN p1 \o <<[what |-> "expected", count |-> Len(matchesExpected)]>>
                 ELSE p1
           p3 == IF Len(p2) = 0 /\ Len(relevantSlots) > 0
                 THEN <<[what |-> "relevant", count |-> Len(relevantSlots)]>>
                 ELSE p2
       IN [found |-> TRUE, parts |-> p3]

\* A result that lists the better records first among its relevantSlots.
NotificationResultBetterFirst(notificationConfig, lists, notify) ==
  [hasRelevantSlots |-> notify,
   config |-> notificationConfig,
   relevantSlots |->
     lists.betterThanExisting \o
       SelectSeq(lists.relevantSlots,
                 LAMBDA slot :
                   \A k \in 1..Len(lists.betterThanExisting) :
                     lists.betterThanExisting[k] # slot),
   betterThanExisting |-> lists.betterThanExisting,
   matchesExpected |-> lists.matchesExpected,
   summary |->
     [totalRelevantSlots |-> Len(lists.relevantSlots),
      betterSlotsCount |-> Len(lists.betterThanExisting),
      expectedMatchesCount |-> Len(lists.matchesExpected),
      message |-> summaryMessage(notify, lists.relevantSlots,
                                 lists.betterThanExisting,
                                 lists.matchesExpected)]]

\* Lines 233-273: the NotificationResult built from the loop's three lists.
\* (notificationTime, a clock reading, is left out.)
NotificationResult(notificationConfig, lists, notify) ==
  [hasRelevantSlots |-> notify,
   config |-> notificationConfig,
   relevantSlots |-> lists.relevantSlots,
   betterThanExisting |-> lists.betterThanExisting,
   matchesExpected |-> lists.matchesExpected,
   summary |->
     [totalRelevantSlots |-> Len(lists.relevantSlots),
      betterSlotsCount |-> Len(lists.betterThanExisting),
      expectedMatchesCount |-> Len(lists.matchesExpected),
      message |-> summaryMessage(notify, lists.relevantSlots,
                                 lists.betterThanExisting,
                                 lists.matchesExpected)]]

ResultOfLoop(notificationConfig, lists) ==
  NotificationResult(notificationConfig, lists,
                     shouldNotify(notificationConfig.onlyBetterSlots,
                                  lists.relevantSlots, lists.betterThanExisting,
                                  lists.matchesExpected))

\* filterResultsForNotification on the parsed content of the results file.
filterResultsForNotification(crawlResults, notificationConfig) ==
  ResultOfLoop(notificationConfig,
               FilterLoop(crawlResults.availableLocations, notificationConfig,
                          Len(crawlResults.availableLocations)))

(***************************************************************************)
(* crawler.ts: what one scrape hands to the filter.                        *)
(***************************************************************************)
\* "no available"
NoAvailableText ==
  <<"n", "o", " ", "a", "v", "a", "i", "l", "a", "b", "l", "e">>

\* extractLocationData: isAvailable is derived from the availability text.
extractLocationData(row) ==
  [id |-> row.id, name |-> row.name, distance |-> row.distance,
   availability |-> row.availability,
   isAvailable |-> ~includes(toLowerCase(row.availability), NoAvailableText),
   searchLocation |-> row.searchLocation]

IsAvailableRecord(loc) == loc.isAvailable

IsNotAvailableRecord(loc) == ~loc.isAvailable

\* crawlMultiple: the CrawlerResult built from all extracted locations.
crawlMultiple(allLocations) ==
  [locations |-> allLocations,
   availableLocations |-> SelectSeq(allLocations, IsAvailableRecord),
   notAvailableLocations |-> SelectSeq(allLocations, IsNotAvailableRecord)]

\* The jsonOutput written to latest-medical-visa-results.json.
jsonOutput(crawlerResult) ==
  [hasAvailable |-> Len(crawlerResult.availableLocations) > 0,
   availableLocations |-> crawlerResult.availableLocations,
   notAvailableLocations |-> crawlerResult.notAvailableLocations,
   allLocations |-> crawlerResult.locations]

(***************************************************************************)
(* The inputs the model draws from.                                        *)
(***************************************************************************)
\* "Perth"
NamePerth ==
  <<"P", "e", "r", "t", "h">>

\* "PERTH CITY"
NamePerthCity ==
  <<"P", "E", "R", "T", "H", " ", "C", "I", "T", "Y">>

\* "Perth Airport"
NamePerthAirport ==
  <<"P", "e", "r", "t", "h", " ", "A", "i", "r", "p", "o", "r", "t">>

\* "Adelaide City Centre"
NameAdelaideCity ==
  <<"A", "d", "e", "l", "a", "i", "d", "e", " ", "C", "i", "t", "y", " ",
    "C", "e", "n", "t", "r", "e">>

\* "Darwin"
NameDarwin ==
  <<"D", "a", "r", "w", "i", "n">>

\* "5 km"
Km5 ==
  <<"5", " ", "k", "m">>

\* "12 km"
Km12 ==
  <<"1", "2", " ", "k", "m">>

\* "30 km"
Km30 ==
  <<"3", "0", " ", "k", "m">>

\* "100 km"
Km100 ==
  <<"1", "0", "0", " ", "k", "m">>

\* "Wed 1/10/2025 9:00 AM"
Avail1Oct2025 ==
  <<"W", "e", "d", " ", "1", "/", "1", "0", "/", "2", "0", "2", "5", " ",
    "9", ":", "0", "0", " ", "A", "M">>

\* "Wed 31/12/2025 8:00 AM"
Avail31Dec2025 ==
  <<"W", "e", "d", " ", "3", "1", "/", "1", "2", "/", "2", "0", "2", "5",
    " ", "8", ":", "0", "0", " ", "A", "M">>

\* "Mon 5/01/2026 10:00 AM"
Avail5Jan2026 ==
  <<"M", "o", "n", " ", "5", "/", "0", "1", "/", "2", "0", "2", "6", " ",
    "1", "0", ":", "0", "0", " ", "A", "M">>

\* "Tuesday 26/08/202510:00 AM"
Avail26Aug2025 ==
  <<"T", "u", "e", "s", "d", "a", "y", " ", "2", "6", "/", "0", "8", "/",
    "2", "0", "2", "5", "1", "0", ":", "0", "0", " ", "A", "M">>

\* "Call clinic"
AvailCallClinic ==
  <<"C", "a", "l", "l", " ", "c", "l", "i", "n", "i", "c">>

\* "perth"
RulePerth ==
  <<"p", "e", "r", "t", "h">>

\* "Adelaide"
RuleAdelaide ==
  <<"A", "d", "e", "l", "a", "i", "d", "e">>

\* "2025-12-31"
Date31Dec2025 ==
  <<"2", "0", "2", "5", "-", "1", "2", "-", "3", "1">>

\* "2025-08-30"
Date30Aug2025 ==
  <<"2", "0", "2", "5", "-", "0", "8", "-", "3", "0">>

Row(id, name, distance, availability, state) ==
  [id |-> id, name |-> name, distance |-> distance,
   availability |-> availability, searchLocation |-> [state |-> state]]

\* Rows of the booking site's location table as the scraper reads them.
ScrapedRows ==
  { Row("101", NamePerth, Km5, Avail1Oct2025, "WA"),
    Row("101", NamePerth, Km5, Avail31Dec2025, "WA"),
    Row("103", NamePerthCity, Km12, Avail5Jan2026, "WA"),
    Row("102", NameAdelaideCity, Km100, Avail26Aug2025, "SA"),
    Row("105", NamePerthAirport, Km30, NoAvailableSlot, "WA"),
    Row("106", NameDarwin, <<>>, AvailCallClinic, "") }

LocationPool == { extractLocationData(row) : row \in ScrapedRows }

SeqsUpTo(S, n) == UNION { [1..k -> S] : k \in 0..n }

\* Contents of a results file: the ones this program writes from a scrape,
\* and files from elsewhere (the runner takes any path with --results)
\* whose availableLocations is the whole list.
ResultFiles ==
  { jsonOutput(crawlMultiple(locs)) : locs \in SeqsUpTo(LocationPool, MaxLocations) }
  \cup
  { [hasAvailable |-> Len(locs) > 0, availableLocations |-> locs,
     notAvailableLocations |-> <<>>, allLocations |-> locs] :
      locs \in SeqsUpTo(LocationPool, MaxLocations) }

Place(locationId, locationName, state, maxDistance) ==
  [locationId |-> locationId, locationName |-> locationName,
   state |-> state, maxDistance |-> maxDistance]

PlacePool ==
  { Place("", RuleAdelaide, "SA", <<>>),
    Place("101", <<>>, "SA", <<>>),
    Place("999", <<>>, "", <<>>),
    Place("", RulePerth, "WA", Km5) }

NoSlot == [present |-> FALSE, locationId |-> "", locationName |-> <<>>,
           date |-> <<>>]

Slot(locationId, locationName, date) ==
  [present |-> TRUE, locationId |-> locationId,
   locationName |-> locationName, date |-> date]

ExistingSlotPool ==
  { NoSlot, Slot("", RulePerth, Date31Dec2025), Slot("101", <<>>, Date31Dec2025) }

ExpectedSlotPool ==
  { NoSlot, Slot("", RuleAdelaide, Date30Aug2025), Slot("101", <<>>, <<>>) }

NoEmail == [present |-> FALSE, to |-> <<>>]

EmailPool == { NoEmail, [present |-> TRUE, to |-> <<"user@example.com">>] }

\* Parsed content of config.json (the fields the filter and the service
\* use): every list of rules with one choice of slots, and every choice of
\* slots with one list of rules.
ConfigPool ==
  [placesToNotify : SeqsUpTo(PlacePool, MaxPlaces),
   existingSlot : { Slot("", RulePerth, Date31Dec2025) },
   expectedSlot : { Slot("", RuleAdelaide, Date30Aug2025) },
   onlyBetterSlots : BOOLEAN,
   email : { NoEmail }]
  \cup
  [placesToNotify : { << Place("", RulePerth, "", <<>>),
                         Place("", <<>>, "SA", Km100) >> },
   existingSlot : ExistingSlotPool,
   expectedSlot : ExpectedSlotPool,
   onlyBetterSlots : BOOLEAN,
   email : EmailPool]

NoFile == [missing |-> TRUE]

\* loadNotificationConfig: the notification fields of the parsed config.
loadNotificationConfig(config) ==
  [placesToNotify |-> config.placesToNotify,
   existingSlot |-> config.existingSlot,
   expectedSlot |-> config.expectedSlot,
   onlyBetterSlots |-> config.onlyBetterSlots,
   email |-> config.email]

(***************************************************************************)
(* notification-runner.ts: one run of the one-shot filter over the files.  *)
(***************************************************************************)
\* A level that takes LOW from hasRelevantSlots.
runnerNotificationLevelByFlag(notificationResult) ==
  IF Len(notificationResult.betterThanExisting) > 0 THEN "HIGH"
  ELSE IF Len(notificationResult.matchesExpected) > 0 THEN "MEDIUM"
  ELSE IF notificationResult.hasRelevantSlots THEN "LOW"
  ELSE "NONE"

runnerNotificationLevel(notificationResult) ==
  IF Len(notificationResult.betterThanExisting) > 0 THEN "HIGH"
  ELSE IF Len(notificationResult.matchesExpected) > 0 THEN "MEDIUM"
  ELSE IF Len(notificationResult.relevantSlots) > 0 THEN "LOW"
  ELSE "NONE"

NoResult == [none |-> TRUE]

RunnerInit ==
  runner = [pc |-> "main", notificationResult |-> NoResult, emailCalls |-> 0,
            run |-> 1]

\* main(), lines 85-120: write notification-result.json, then call the
\* email service (lines 88-90) or go on to exit.
RunnerWrites(notificationResult, sends) ==
  /\ notificationFile' =
       [result |-> notificationResult,
        notificationLevel |-> runnerNotificationLevel(notificationResult)]
  /\ runner' = [pc |-> IF sends THEN "email" ELSE "exit",
                notificationResult |-> notificationResult,
                emailCalls |-> IF sends THEN 1 ELSE 0,
                run |-> runner.run]

RunnerFilters(notificationConfig, notificationResult) ==
  RunnerWrites(notificationResult,
               notificationResult.hasRelevantSlots
                 /\ notificationConfig.email.present)

\* main(), lines 127-130: the catch logs the error and the process exits
\* with code 2; notification-result.json is not written.
RunnerFails ==
  /\ runner' = [runner EXCEPT !.pc = "failed"]
  /\ UNCHANGED notificationFile

\* A main() whose classification takes the records off the list it reads.
RunnerMainConsumes ==
  /\ runner.pc = "main"
  /\ RunnerFilters(loadNotificationConfig(configFile),
                   filterResultsForNotification(
                     resultsFile, loadNotificationConfig(configFile)))
  /\ resultsFile' = [resultsFile EXCEPT !.availableLocations = <<>>]
  /\ UNCHANGED <<tz, configFile, serviceVars>>

\* main() up to its first await: load the config, filter the results file,
\* write notification-result.json, then call the email service or exit.
RunnerMain ==
  /\ runner.pc = "main"
  /\ IF ClassificationThrows(resultsFile, loadNotificationConfig(configFile))
     THEN RunnerFails
     ELSE RunnerFilters(loadNotificationConfig(configFile),
                        filterResultsForNotification(
                          resultsFile, loadNotificationConfig(configFile)))
  /\ UNCHANGED <<tz, configFile, resultsFile, serviceVars>>

\* sendEmailNotification settles (true or false, it never rejects) and the
\* process exits.
RunnerEmailSettled ==
  /\ runner.pc = "email"
  /\ runner' = [runner EXCEPT !.pc = "exit"]
  /\ UNCHANGED <<tz, configFile, resultsFile, notificationFile, serviceVars>>

\* The command is run again over the files the last run left
\* (`if (import.meta.main) main()` in a new process).
RunnerAgain ==
  /\ runner.pc = "exit"
  /\ runner.run < MaxRuns
  /\ runner' = [pc |-> "main", notificationResult |-> NoResult,
                emailCalls |-> 0, run |-> runner.run + 1]
  /\ UNCHANGED <<tz, configFile, resultsFile, notificationFile, serviceVars>>

(***************************************************************************)
(* service.ts: MedicalVisaSlotService.                                     *)
(*                                                                         *)
(* JavaScript runs one callback at a time, so a step of the model is the   *)
(* code between two awaits that wait for the outside world: the scrape,    *)
(* the retry sleep and the email provider.  A promise that is already      *)
(* settled is resumed before any timer or signal is served, so start()'s   *)
(* lines after `await this.performCheck()` run in the step that ends that  *)
(* check.                                                                  *)
(*                                                                         *)
(* cycles is the bag of the checks in flight, each with the locals it      *)
(* holds at its await; a check that returns leaves the bag and leaves in   *)
(* lastCheck what it did.                                                  *)
(***************************************************************************)
maxRetries == 3

NoTimer == 0

TimerIds == 1..MaxTimers

\* A check awaiting the crawler (pc "crawl"), the retry sleep ("sleep") or
\* the email provider ("email").  byStart: start() is awaiting this check.
\* attempt is runCrawlerWithRetry's loop variable (after its return, the
\* attempt that succeeded) and delays the sleeps it has asked for.
NewCycle(byStart) ==
  [pc |-> "crawl", byStart |-> byStart, attempt |-> 1, delays |-> <<>>,
   crawlerResult |-> NoResult, notificationResult |-> NoResult]

\* What a check that has returned did: how it ended, the scrape attempts
\* it made and the sleeps between them, the files it wrote, the calls of
\* sendEmailNotification it made and what the call returned.
NoCheck ==
  [outcome |-> "none", attempts |-> 0, delays |-> <<>>,
   wroteResults |-> FALSE, wroteNotification |-> FALSE, emailCalls |-> 0,
   emailSent |-> "none"]

\* A check of `cycle` that ended with `outcome` in its current attempt.
Ended(cycle, outcome) ==
  [NoCheck EXCEPT !.outcome = outcome, !.attempts = cycle.attempt,
                  !.delays = cycle.delays]

InFlight == BagToSet(cycles)

One(cycle) == SetToBag({cycle})

CanBegin == BagCardinality(cycles) < MaxInFlight

\* A handle setInterval has not given to an armed timer.
FreshTimer == CHOOSE h \in TimerIds : h \notin timers

\* The start() calls whose await has not returned: each will arm a timer.
PendingStarts ==
  BagCardinality([cycle \in { x \in InFlight : x.byStart } |->
                    CopiesIn(cycle, cycles)])

getNotificationLevel(notificationResult) ==
  IF Len(notificationResult.betterThanExisting) > 0 THEN "HIGH"
  ELSE IF Len(notificationResult.matchesExpected) > 0 THEN "MEDIUM"
  ELSE IF Len(notificationResult.relevantSlots) > 0 THEN "LOW"
  ELSE "NONE"

\* The scrapes the booking site answers with in this model: one with an
\* open slot at location 101 in WA, one with an open slot in SA only.
ServiceScrapes ==
  { << extractLocationData(Row("101", NamePerth, Km5, Avail1Oct2025, "WA")),
       extractLocationData(Row("105", NamePerthAirport, Km30, NoAvailableSlot, "WA")) >>,
    << extractLocationData(Row("102", NameAdelaideCity, Km100, Avail26Aug2025, "SA")) >> }

\* The configurations the service runs with in this model: notify for
\* location 101 in WA, with and without an email section.
ServiceConfigs ==
  [placesToNotify : { << Place("101", <<>>, "WA", <<>>) >> },
   existingSlot : { NoSlot },
   expectedSlot : { NoSlot },
   onlyBetterSlots : { FALSE },
   email : EmailPool]

ServiceInit ==
  /\ isRunning = FALSE
  /\ intervalId = NoTimer
  /\ timers = {}
  /\ cycles = EmptyBag
  /\ lastCheck = NoCheck

\* start(), lines 36-51: not running, so mark running and begin the
\* initial check.
Start ==
  /\ ~isRunning
  /\ CanBegin
  /\ Cardinality(timers) + PendingStarts < MaxTimers
  /\ isRunning' = TRUE
  /\ cycles' = cycles (+) One(NewCycle(TRUE))
  /\ UNCHANGED <<intervalId, timers, lastCheck, tz, configFile, resultsFile,
                 notificationFile, runner>>

\* A start() that runs its initial check although the service is running.
StartWhileRunningChecks ==
  /\ isRunning
  /\ CanBegin
  /\ Cardinality(timers) + PendingStarts < MaxTimers
  /\ cycles' = cycles (+) One(NewCycle(TRUE))
  /\ UNCHANGED <<isRunning, intervalId, timers, lastCheck, tz, configFile,
                 resultsFile, notificationFile, runner>>

\* start(), lines 37-40: already running.
StartWhileRunning ==
  /\ isRunning
  /\ UNCHANGED vars

\* stop(), lines 70-77.
Stop ==
  /\ isRunning
  /\ timers' = IF intervalId # NoTimer THEN timers \ {intervalId} ELSE timers
  /\ intervalId' = NoTimer
  /\ isRunning' = FALSE
  /\ UNCHANGED <<cycles, lastCheck, tz, configFile, resultsFile,
                 notificationFile, runner>>

\* stop(), lines 65-68: not running.
StopWhileStopped ==
  /\ ~isRunning
  /\ UNCHANGED vars

\* The setInterval callback of lines 55-57 runs for an armed timer.
TimerFires(t) ==
  /\ t \in timers
  /\ CanBegin
  /\ cycles' = cycles (+) One(NewCycle(FALSE))
  /\ UNCHANGED <<isRunning, intervalId, timers, lastCheck, tz, configFile,
                 resultsFile, notificationFile, runner>>

\* start(), lines 53-57, after the check it awaited: arm the repeating
\* timer and keep its handle.  A check begun by a timer has no such tail.
AfterCheck(cycle) ==
  IF cycle.byStart
  THEN intervalId' = FreshTimer /\ timers' = timers \cup {FreshTimer}
  ELSE UNCHANGED <<intervalId, timers>>

\* performCheck of `cycle` returns, having done `check`.
Returns(cycle, check) ==
  /\ lastCheck' = check
  /\ cycles' = cycles (-) One(cycle)
  /\ AfterCheck(cycle)

\* The check at its next await.
Becomes(cycle, next) ==
  cycles' = (cycles (-) One(cycle)) (+) One(next)

\* A retry loop that sleeps the same time after every failure.
retryDelayFixed(attempt) == 2000

\* Line 229.
retryDelay(attempt) == attempt * 2000

\* A retry loop that counts retries, not attempts.
RetriesLeftInclusive(attempt) == attempt <= maxRetries

\* Line 228: a sleep and another attempt follow the failed one.
RetriesLeft(attempt) == attempt < maxRetries

\* The crawler rejects (or config.json cannot be loaded) and attempts are
\* left: lines 224-232, the loop sleeps.
CrawlFailsRetry(cycle) ==
  /\ cycle.pc = "crawl"
  /\ RetriesLeft(cycle.attempt)
  /\ Becomes(cycle, [cycle EXCEPT
                       !.pc = "sleep",
                       !.delays = Append(@, retryDelay(cycle.attempt))])
  /\ UNCHANGED <<isRunning, intervalId, timers, lastCheck, tz, configFile,
                 resultsFile, notificationFile, runner>>

\* The setTimeout of line 231 fires: the for loop goes to its next attempt.
SleepEnds(cycle) ==
  /\ cycle.pc = "sleep"
  /\ Becomes(cycle, [cycle EXCEPT !.pc = "crawl", !.attempt = @ + 1])
  /\ UNCHANGED <<isRunning, intervalId, timers, lastCheck, tz, configFile,
                 resultsFile, notificationFile, runner>>

\* The last attempt fails: runCrawlerWithRetry returns null (lines 236-240)
\* and performCheck returns at line 100.
ExhaustedCheck(cycle) == Ended(cycle, "exhausted")

\* A service that shuts itself down when the retries are exhausted.
CrawlFailsExhaustedStops(cycle) ==
  /\ cycle.pc = "crawl"
  /\ ~RetriesLeft(cycle.attempt)
  /\ lastCheck' = ExhaustedCheck(cycle)
  /\ cycles' = cycles (-) One(cycle)
  /\ isRunning' = FALSE
  /\ intervalId' = NoTimer
  /\ timers' = timers \ {intervalId}
  /\ UNCHANGED <<tz, configFile, resultsFile, notificationFile, runner>>

CrawlFailsExhausted(cycle) ==
  /\ cycle.pc = "crawl"
  /\ ~RetriesLeft(cycle.attempt)
  /\ Returns(cycle, ExhaustedCheck(cycle))
  /\ UNCHANGED <<isRunning, tz, configFile, resultsFile, notificationFile,
                 runner>>

\* performCheck, lines 103-157, when nothing throws: the content of the two
\* files and the classification, from the crawler's result.
FilesOf(written, notificationConfig, notificationResult) ==
  [resultsFile |-> written,
   notificationResult |-> notificationResult,
   notificationFile |->
     [result |-> notificationResult,
      notificationLevel |-> getNotificationLevel(notificationResult)],
   sends |-> notificationResult.hasRelevantSlots
               /\ notificationConfig.email.present]

Classified(written, notificationConfig) ==
  FilesOf(written, notificationConfig,
          filterResultsForNotification(written, notificationConfig))

\* A check whose classification reads the results file as the previous
\* check left it.
CheckFilesOfPrevious(crawlerResult) ==
  Classified(IF resultsFile = NoFile THEN jsonOutput(crawlerResult)
             ELSE resultsFile,
             loadNotificationConfig(configFile))

CheckFiles(crawlerResult) ==
  Classified(jsonOutput(crawlerResult), loadNotificationConfig(configFile))

\* An attempt succeeds: runCrawlerWithRetry returns the result (line 223)
\* and performCheck goes on.  The first writeFileSync throws (the disk
\* decides): the catch of line 207 ends the check.
ResultsWriteFails(cycle) ==
  /\ cycle.pc = "crawl"
  /\ configFile # NoFile
  /\ Returns(cycle, Ended(cycle, "error"))
  /\ UNCHANGED <<isRunning, tz, configFile, resultsFile, notificationFile,
                 runner>>

\* A failure after the results are saved that takes the service down.
NotificationWriteFailsStops(cycle, allLocations) ==
  /\ cycle.pc = "crawl"
  /\ configFile # NoFile
  /\ resultsFile' = jsonOutput(crawlMultiple(allLocations))
  /\ lastCheck' = [Ended(cycle, "error") EXCEPT !.wroteResults = TRUE]
  /\ cycles' = cycles (-) One(cycle)
  /\ isRunning' = FALSE
  /\ UNCHANGED <<intervalId, timers, tz, configFile, notificationFile,
                 runner>>

\* The results are saved, and a later line of the try block throws: the
\* re-read of config.json (line 126), the filter's read of the results
\* file or its classification (lines 127-130), or the second
\* writeFileSync (line 152).  The catch of line 207 ends the check.
NotificationWriteFails(cycle, allLocations) ==
  /\ cycle.pc = "crawl"
  /\ configFile # NoFile
  /\ resultsFile' = jsonOutput(crawlMultiple(allLocations))
  /\ Returns(cycle, [Ended(cycle, "error") EXCEPT !.wroteResults = TRUE])
  /\ UNCHANGED <<isRunning, tz, configFile, notificationFile, runner>>

\* What a check that wrote both files did, before any email.
CompletedCheck(cycle) ==
  [Ended(cycle, "completed") EXCEPT !.wroteResults = TRUE,
                                    !.wroteNotification = TRUE]

\* A check that sends no email when the notification result it wrote is the
\* one the file already held.
WritesAndNotifiesOnce(cycle, crawlerResult, files, credentialsOk) ==
  /\ resultsFile' = files.resultsFile
  /\ notificationFile' = files.notificationFile
  /\ IF ~files.sends \/ notificationFile = files.notificationFile
     THEN Returns(cycle, CompletedCheck(cycle))
     ELSE IF ~credentialsOk
     THEN Returns(cycle, [CompletedCheck(cycle) EXCEPT
                            !.emailCalls = 1, !.emailSent = "false"])
     ELSE /\ Becomes(cycle,
                     [cycle EXCEPT
                        !.pc = "email",
                        !.crawlerResult = crawlerResult,
                        !.notificationResult = files.notificationResult])
          /\ UNCHANGED <<intervalId, timers, lastCheck>>

\* Both files are written (lines 121 and 152).  Then, lines 160-197: no
\* email is due and the check returns; or sendEmailNotification is called
\* and either returns false at once (config.ini unusable or email disabled
\* there: credentialsOk false) or awaits the provider.
WritesAndNotifies(cycle, crawlerResult, files, credentialsOk) ==
  /\ resultsFile' = files.resultsFile
  /\ notificationFile' = files.notificationFile
  /\ IF ~files.sends
     THEN Returns(cycle, CompletedCheck(cycle))
     ELSE IF ~credentialsOk
     THEN Returns(cycle, [CompletedCheck(cycle) EXCEPT
                            !.emailCalls = 1, !.emailSent = "false"])
     ELSE /\ Becomes(cycle,
                     [cycle EXCEPT
                        !.pc = "email",
                        !.crawlerResult = crawlerResult,
                        !.notificationResult = files.notificationResult])
          /\ UNCHANGED <<intervalId, timers, lastCheck>>

\* An attempt succeeds and nothing throws.
CrawlSucceeds(cycle, allLocations, credentialsOk) ==
  /\ cycle.pc = "crawl"
  /\ configFile # NoFile
  /\ WritesAndNotifies(cycle, crawlMultiple(allLocations),
                       CheckFiles(crawlMultiple(allLocations)), credentialsOk)
  /\ UNCHANGED <<isRunning, tz, configFile, runner>>

\* A check in which a failed dispatch reaches the catch of line 207.
EmailSettlesThrows(cycle, sent) ==
  /\ cycle.pc = "email"
  /\ Returns(cycle, [CompletedCheck(cycle) EXCEPT
                       !.outcome = IF sent THEN "completed" ELSE "error",
                       !.emailCalls = 1,
                       !.emailSent = IF sent THEN "true" ELSE "false"])
  /\ UNCHANGED <<isRunning, tz, configFile, resultsFile, notificationFile,
                 runner>>

\* The email provider answers (sent or not): lines 180-206.
EmailSettles(cycle, sent) ==
  /\ cycle.pc = "email"
  /\ Returns(cycle, [CompletedCheck(cycle) EXCEPT
                       !.emailCalls = 1,
                       !.emailSent = IF sent THEN "true" ELSE "false"])
  /\ UNCHANGED <<isRunning, tz, configFile, resultsFile, notificationFile,
                 runner>>

(***************************************************************************)
(* The service: one MedicalVisaSlotService over config.json.               *)
(***************************************************************************)
\* The service's configurations here name no slot dates, so its checks
\* compare no dates and one time zone stands for all.
Init ==
  /\ tz = "Australia/Perth"
  /\ configFile \in ServiceConfigs \cup {NoFile}
  /\ resultsFile = NoFile
  /\ notificationFile = NoFile
  /\ RunnerInit
  /\ ServiceInit

Next ==
  \/ Start
  \/ StartWhileRunning
  \/ Stop
  \/ StopWhileStopped
  \/ \E t \in TimerIds : TimerFires(t)
  \/ \E cycle \in InFlight : CrawlFailsRetry(cycle)
  \/ \E cycle \in InFlight : SleepEnds(cycle)
  \/ \E cycle \in InFlight : CrawlFailsExhausted(cycle)
  \/ \E cycle \in InFlight : ResultsWriteFails(cycle)
  \/ \E cycle \in InFlight, allLocations \in ServiceScrapes :
       NotificationWriteFails(cycle, allLocations)
  \/ \E cycle \in InFlight, allLocations \in ServiceScrapes,
        credentialsOk \in BOOLEAN :
       CrawlSucceeds(cycle, allLocations, credentialsOk)
  \/ \E cycle \in InFlight, sent \in BOOLEAN : EmailSettles(cycle, sent)

Spec == Init /\ [][Next]_vars

(***************************************************************************)
(* The service over a config.json whose email section lists no recipient.  *)
(***************************************************************************)
\* "email": { "to": [] }
NoRecipients == [present |-> TRUE, to |-> <<>>]

NoRecipientsConfigs ==
  [placesToNotify : { << Place("101", <<>>, "WA", <<>>) >> },
   existingSlot : { NoSlot },
   expectedSlot : { NoSlot },
   onlyBetterSlots : { FALSE },
   email : { NoRecipients }]

InitNoRecipients ==
  /\ tz = "Australia/Perth"
  /\ configFile \in NoRecipientsConfigs
  /\ resultsFile = NoFile
  /\ notificationFile = NoFile
  /\ RunnerInit
  /\ ServiceInit

SpecNoRecipients == InitNoRecipients /\ [][Next]_vars

(***************************************************************************)
(* The service over a config.json that has an email section, where every   *)
(* check with a relevant slot reaches sendEmailNotification.               *)
(***************************************************************************)
InitEmail ==
  /\ tz = "Australia/Perth"
  /\ configFile \in { config \in ServiceConfigs : config.email.present }
  /\ resultsFile = NoFile
  /\ notificationFile = NoFile
  /\ RunnerInit
  /\ ServiceInit

SpecEmail == InitEmail /\ [][Next]_vars

(***************************************************************************)
(* The one-shot runner over a results file and a config.                   *)
(***************************************************************************)
InitRunner ==
  /\ tz \in TimeZones
  /\ configFile \in ConfigPool
  /\ resultsFile \in ResultFiles
  /\ notificationFile = NoFile
  /\ RunnerInit
  /\ ServiceInit

NextRunner ==
  \/ RunnerMain
  \/ RunnerEmailSettled

SpecRunner == InitRunner /\ [][NextRunner]_vars

(***************************************************************************)
(* The one-shot filter over records dated around an expected date: seven   *)
(* and eight days either side of 1 April 2026, and a record whose          *)
(* availability text carries no date.                                      *)
(***************************************************************************)
\* "Tue 24/03/2026 9:00 AM"
Avail24Mar2026 ==
  <<"T", "u", "e", " ", "2", "4", "/", "0", "3", "/", "2", "0", "2", "6",
    " ", "9", ":", "0", "0", " ", "A", "M">>

\* "Wed 25/03/2026 9:00 AM"
Avail25Mar2026 ==
  <<"W", "e", "d", " ", "2", "5", "/", "0", "3", "/", "2", "0", "2", "6",
    " ", "9", ":", "0", "0", " ", "A", "M">>

\* "Wed 8/04/2026 9:00 AM"
Avail8Apr2026 ==
  <<"W", "e", "d", " ", "8", "/", "0", "4", "/", "2", "0", "2", "6", " ",
    "9", ":", "0", "0", " ", "A", "M">>

\* "Thu 9/04/2026 9:00 AM"
Avail9Apr2026 ==
  <<"T", "h", "u", " ", "9", "/", "0", "4", "/", "2", "0", "2", "6", " ",
    "9", ":", "0", "0", " ", "A", "M">>

\* "2026-04-01"
Date1Apr2026 ==
  <<"2", "0", "2", "6", "-", "0", "4", "-", "0", "1">>

\* Rows of the location table whose dates lie around Date1Apr2026.
ExpectedRows ==
  { Row("101", NamePerth, Km5, Avail24Mar2026, "WA"),
    Row("101", NamePerth, Km5, Avail25Mar2026, "WA"),
    Row("101", NamePerth, Km5, Avail8Apr2026, "WA"),
    Row("101", NamePerth, Km5, Avail9Apr2026, "WA"),
    Row("101", NamePerth, Km5, AvailCallClinic, "WA"),
    Row("102", NameAdelaideCity, Km100, Avail25Mar2026, "SA") }

\* results.json after a scrape that found at most two of these rows.
ExpectedResultFiles ==
  { jsonOutput(crawlMultiple(locs)) :
      locs \in SeqsUpTo({ extractLocationData(row) : row \in ExpectedRows }, 2) }

\* config.json with an expected slot by id, by name, by date alone, or
\* without a date.
ExpectedConfigs ==
  [placesToNotify : { << Place("", RulePerth, "", <<>>),
                         Place("", <<>>, "SA", Km100) >> },
   existingSlot : { NoSlot, Slot("101", <<>>, Date31Dec2025) },
   expectedSlot : { Slot("101", <<>>, Date1Apr2026),
                    Slot("", RulePerth, Date1Apr2026),
                    Slot("", <<>>, Date1Apr2026),
                    Slot("101", <<>>, <<>>) },
   onlyBetterSlots : BOOLEAN,
   email : EmailPool]

InitExpected ==
  /\ tz \in TimeZones
  /\ configFile \in ExpectedConfigs
  /\ resultsFile \in ExpectedResultFiles
  /\ notificationFile = NoFile
  /\ RunnerInit
  /\ ServiceInit

NextExpected ==
  \/ RunnerMain
  \/ RunnerEmailSettled
  \/ RunnerAgain

SpecExpected == InitExpected /\ [][NextExpected]_vars

(***************************************************************************)
(* The "other relevant" section of the text report and of the email text.  *)
(***************************************************************************)
\* Array.prototype.includes over the records of a list.
includesSlot(slots, slot) == \E k \in 1..Len(slots) : slots[k] = slot

\* relevantSlots.filter(...) of notification.ts lines 330-333 and of
\* service.ts lines 644-647.
otherSlots(notificationResult) ==
  SelectSeq(notificationResult.relevantSlots,
            LAMBDA slot :
              /\ ~includesSlot(notificationResult.betterThanExisting, slot)
              /\ ~includesSlot(notificationResult.matchesExpected, slot))

\* generateNotificationReport, lines 324-340: the records listed under
\* OTHER RELEVANT SLOTS (none when the section is left out).
reportOtherSection(notificationResult) ==
  IF Len(notificationResult.relevantSlots) >
       Len(notificationResult.betterThanExisting)
         + Len(notificationResult.matchesExpected)
  THEN otherSlots(notificationResult)
  ELSE <<>>

\* generateEmailText, lines 644-662: the records listed under OTHER
\* RELEVANT SLOTS (none when the section is left out).
emailOtherSection(notificationResult) ==
  IF Len(otherSlots(notificationResult)) > 0
  THEN otherSlots(notificationResult)
  ELSE <<>>

(***************************************************************************)
(* The one-shot runner over a results file from elsewhere, in which a      *)
(* record may lack its name or its distance.                               *)
(***************************************************************************)
MalformedRecords ==
  { [extractLocationData(Row("107", NamePerthCity, Km12, Avail5Jan2026, "WA"))
       EXCEPT !.name = Undefined],
    [extractLocationData(Row("108", NamePerthAirport, Km30, Avail26Aug2025, "WA"))
       EXCEPT !.distance = Undefined] }

MalformedResultFiles ==
  { [hasAvailable |-> Len(locs) > 0, availableLocations |-> locs,
     notAvailableLocations |-> <<>>, allLocations |-> locs] :
      locs \in SeqsUpTo(MalformedRecords \cup
                          { extractLocationData(
                              Row("101", NamePerth, Km5, Avail1Oct2025, "WA")) },
                        2) }

\* Rules that test the name, the distance, the id or the state alone.
MalformedConfigs ==
  [placesToNotify : { << Place("", RulePerth, "", <<>>) >>,
                      << Place("", <<>>, "WA", Km100) >>,
                      << Place("107", <<>>, "", <<>>),
                         Place("101", <<>>, "", <<>>) >>,
                      << Place("", <<>>, "WA", <<>>) >> },
   existingSlot : { NoSlot, Slot("", RulePerth, Date31Dec2025) },
   expectedSlot : { NoSlot, Slot("", RulePerth, <<>>) },
   onlyBetterSlots : BOOLEAN,
   email : EmailPool]

InitMalformed ==
  /\ tz = "Australia/Perth"
  /\ configFile \in MalformedConfigs
  /\ resultsFile \in MalformedResultFiles
  /\ notificationFile = NoFile
  /\ RunnerInit
  /\ ServiceInit

SpecMalformed == InitMalformed /\ [][NextRunner]_vars

(***************************************************************************)
(* Properties of the service (checked under Spec).                         *)
(***************************************************************************)
\* The setInterval callback begins a check.
TimerBegins == cycles' = cycles (+) One(NewCycle(FALSE))

\* C1 (as claimed): at most one check is in flight at any time: a timer
\* firing never begins a check while an earlier check has not completed.
C1_TimerNeverOverlaps == [][TimerBegins => cycles = EmptyBag]_vars

\* The last scrape attempt of `cycle` fails and its check ends.
Exhausts(cycle) ==
  /\ cycle.pc = "crawl"
  /\ cycle.attempt = maxRetries
  /\ cycles' = cycles (-) One(cycle)
  /\ lastCheck'.outcome = "exhausted"

\* C2: when all maxRetries scrape attempts of a check fail, the check ends
\* with both files as they were and no email call, the service's running
\* flag is as it was, every armed timer stays armed (the service's own
\* handle still names an armed timer), and an armed timer's next firing
\* begins a new check.
C2_ExhaustedCheckAborts ==
  /\ [][\A cycle \in InFlight :
          Exhausts(cycle) =>
            /\ resultsFile' = resultsFile
            /\ notificationFile' = notificationFile
            /\ ~lastCheck'.wroteResults
            /\ ~lastCheck'.wroteNotification
            /\ lastCheck'.emailCalls = 0
            /\ lastCheck'.attempts = maxRetries
            /\ isRunning' = isRunning
            /\ timers \subseteq timers'
            /\ (intervalId \in timers => intervalId' \in timers')]_vars
  /\ [](lastCheck.outcome = "exhausted" =>
          \A t \in timers : CanBegin => ENABLED TimerFires(t))

\* C2 witness: after a check whose attempts were exhausted the service is
\* running, its timer is armed, the files written earlier are in place and
\* a timer-begun check is at its first attempt.
C2_Witness ==
  /\ lastCheck.outcome = "exhausted"
  /\ isRunning
  /\ intervalId \in timers
  /\ resultsFile # NoFile
  /\ notificationFile # NoFile
  /\ \E cycle \in InFlight :
       ~cycle.byStart /\ cycle.pc = "crawl" /\ cycle.attempt = 1

\* C3: a check makes between 1 and maxRetries scrape attempts, one after
\* the other (attempt k + 1 only after attempt k failed and its sleep was
\* asked for); once an attempt has succeeded the check holds that attempt's
\* result, has classified it, and makes no further attempt.
C3_RetryLoop ==
  /\ \A cycle \in InFlight :
       /\ cycle.attempt \in 1..maxRetries
       /\ cycle.pc = "crawl" =>
            cycle.crawlerResult = NoResult /\ Len(cycle.delays) = cycle.attempt - 1
       /\ cycle.pc = "sleep" =>
            /\ cycle.crawlerResult = NoResult
            /\ cycle.attempt < maxRetries
            /\ Len(cycle.delays) = cycle.attempt
       /\ cycle.pc = "email" =>
            /\ cycle.crawlerResult \in { crawlMultiple(scrape) : scrape \in ServiceScrapes }
            /\ Len(cycle.delays) = cycle.attempt - 1
            /\ cycle.notificationResult =
                 filterResultsForNotification(jsonOutput(cycle.crawlerResult),
                                              loadNotificationConfig(configFile))
  /\ lastCheck.outcome # "none" =>
       /\ lastCheck.attempts \in 1..maxRetries
       /\ Len(lastCheck.delays) = lastCheck.attempts - 1
  /\ lastCheck.outcome = "exhausted" => lastCheck.attempts = maxRetries

\* C3 witness: a check whose second attempt succeeded is awaiting the email
\* provider while the check before it ended on its first attempt.
C3_Witness ==
  /\ lastCheck.outcome = "completed"
  /\ lastCheck.attempts = 1
  /\ \E cycle \in InFlight : cycle.pc = "email" /\ cycle.attempt = 2

\* The sleeps of a check whose first n attempts failed and were retried.
BackoffOf(n) == [k \in 1..n |-> k * 2000]

RunnerDone == runner.pc # "main"

InSeq(x, seq) == \E k \in 1..Len(seq) : seq[k] = x

\* C5: hasRelevantSlots is true exactly when onlyBetterSlots is set and
\* betterThanExisting or matchesExpected is non-empty, or onlyBetterSlots
\* is not set and relevantSlots is non-empty.
C5_ShouldNotify ==
  RunnerDone =>
    (runner.notificationResult.hasRelevantSlots <=>
       IF configFile.onlyBetterSlots
       THEN \/ runner.notificationResult.betterThanExisting # <<>>
            \/ runner.notificationResult.matchesExpected # <<>>
       ELSE runner.notificationResult.relevantSlots # <<>>)

\* C5 witness: with onlyBetterSlots set, a relevant record that is neither
\* better nor an expected match leaves hasRelevantSlots false.
C5_Witness ==
  /\ RunnerDone
  /\ configFile.onlyBetterSlots
  /\ runner.notificationResult.relevantSlots # <<>>
  /\ runner.notificationResult.betterThanExisting = <<>>
  /\ runner.notificationResult.matchesExpected = <<>>
  /\ ~runner.notificationResult.hasRelevantSlots

\* C6 (as claimed): a record with isAvailable = false is in none of
\* relevantSlots, betterThanExisting and matchesExpected, whatever list of
\* the results file it is stored in.
C6_UnavailableNeverListed ==
  RunnerDone =>
    \A list \in { runner.notificationResult.relevantSlots,
                  runner.notificationResult.betterThanExisting,
                  runner.notificationResult.matchesExpected } :
      \A k \in 1..Len(list) : list[k].isAvailable

SatisfiesEveryField(location, place) ==
  /\ place.locationId # "" => location.id = place.locationId
  /\ place.locationName # <<>> =>
       includes(toLowerCase(location.name), toLowerCase(place.locationName))
  /\ place.state # "" => location.searchLocation.state = place.state
  /\ place.maxDistance # <<>> =>
       parseDistance(location.distance) <= parseDistance(place.maxDistance)

\* C8 (as claimed): a rule matches a record only if the record satisfies
\* every field the rule sets, so every relevant record satisfies every set
\* field of at least one rule.
C8_AllFieldsAnded ==
  RunnerDone =>
    \A k \in 1..Len(runner.notificationResult.relevantSlots) :
      \E j \in 1..Len(configFile.placesToNotify) :
        SatisfiesEveryField(runner.notificationResult.relevantSlots[k],
                            configFile.placesToNotify[j])

\* The calendar day (year, month, day) written in the availability texts
\* and configuration dates of the model's inputs.
CalendarDays ==
  (Avail1Oct2025 :> <<2025, 10, 1>>) @@ (Avail31Dec2025 :> <<2025, 12, 31>>)
  @@ (Avail5Jan2026 :> <<2026, 1, 5>>) @@ (Avail26Aug2025 :> <<2025, 8, 26>>)
  @@ (Date31Dec2025 :> <<2025, 12, 31>>) @@ (Date30Aug2025 :> <<2025, 8, 30>>)
  @@ (Avail24Mar2026 :> <<2026, 3, 24>>) @@ (Avail25Mar2026 :> <<2026, 3, 25>>)
  @@ (Avail8Apr2026 :> <<2026, 4, 8>>) @@ (Avail9Apr2026 :> <<2026, 4, 9>>)
  @@ (Date1Apr2026 :> <<2026, 4, 1>>)

HasCalendarDay(text) == text \in DOMAIN CalendarDays

DayBefore(a, b) ==
  \/ a[1] < b[1]
  \/ a[1] = b[1] /\ a[2] < b[2]
  \/ a[1] = b[1] /\ a[2] = b[2] /\ a[3] < b[3]

\* C9: a relevant record at the existing slot's location (same id, or the
\* slot's locationName a case-insensitive substring of its name) whose
\* availability holds a date is in betterThanExisting exactly when its
\* calendar day is before existingSlot.date.
C9_SameLocationEarlierOnly ==
  (RunnerDone /\ configFile.existingSlot.present) =>
    \A k \in 1..Len(runner.notificationResult.relevantSlots) :
      LET location == runner.notificationResult.relevantSlots[k]
      IN (/\ HasCalendarDay(location.availability)
          /\ SameLocationAsExisting(location, configFile.existingSlot)) =>
           (InSeq(location, runner.notificationResult.betterThanExisting) <=>
              DayBefore(CalendarDays[location.availability],
                        CalendarDays[configFile.existingSlot.date]))

\* C9 witness: of two relevant records at the existing slot's location the
\* one on an earlier day is better, and the one on the slot's own day, at
\* an earlier hour, is not.
C9_Witness ==
  /\ RunnerDone
  /\ configFile.existingSlot.present
  /\ \E j, k \in 1..Len(runner.notificationResult.relevantSlots) :
       LET early == runner.notificationResult.relevantSlots[j]
           same  == runner.notificationResult.relevantSlots[k]
       IN /\ SameLocationAsExisting(early, configFile.existingSlot)
          /\ SameLocationAsExisting(same, configFile.existingSlot)
          /\ early.availability = Avail1Oct2025
          /\ same.availability = Avail31Dec2025
          /\ configFile.existingSlot.date = Date31Dec2025
          /\ InSeq(early, runner.notificationResult.betterThanExisting)
          /\ ~InSeq(same, runner.notificationResult.betterThanExisting)

Undated(location) ==
  location.isAvailable /\ ~HasCalendarDay(location.availability)

\* The location fields the slot gives are those of the record.
AtSlotLocation(location, slot) ==
  /\ slot.locationId # "" => location.id = slot.locationId
  /\ slot.locationName # <<>> =>
       includes(toLowerCase(location.name), toLowerCase(slot.locationName))

CalendarDaysApart(a, b) ==
  LET x == DaysFromCivil(CalendarDays[a][1], CalendarDays[a][2], CalendarDays[a][3])
      y == DaysFromCivil(CalendarDays[b][1], CalendarDays[b][2], CalendarDays[b][3])
  IN IF x >= y THEN x - y ELSE y - x

\* C12 (as claimed): for an expectedSlot with a date D whose location
\* fields match a relevant record, the record is in matchesExpected
\* exactly when its date is at most 7 calendar days from D, before or
\* after: D-7 and D+7 match, D-8 and D+8 do not.
C12_SevenDaysEitherSide ==
  (RunnerDone /\ configFile.expectedSlot.present
     /\ configFile.expectedSlot.date # <<>>) =>
    \A k \in 1..Len(runner.notificationResult.relevantSlots) :
      LET location == runner.notificationResult.relevantSlots[k]
      IN (/\ HasCalendarDay(location.availability)
          /\ AtSlotLocation(location, configFile.expectedSlot)) =>
           (InSeq(location, runner.notificationResult.matchesExpected) <=>
              CalendarDaysApart(location.availability,
                                configFile.expectedSlot.date) <= 7)

\* Two results with the same hasRelevantSlots, relevantSlots,
\* betterThanExisting, matchesExpected and summary.
SameClassification(a, b) ==
  /\ a.hasRelevantSlots = b.hasRelevantSlots
  /\ a.relevantSlots = b.relevantSlots
  /\ a.betterThanExisting = b.betterThanExisting
  /\ a.matchesExpected = b.matchesExpected
  /\ a.summary = b.summary

C14_NotificationLevel ==
  notificationFile # NoFile =>
    /\ notificationFile.notificationLevel =
         (IF notificationFile.result.betterThanExisting # <<>> THEN "HIGH"
          ELSE IF notificationFile.result.matchesExpected # <<>> THEN "MEDIUM"
          ELSE IF notificationFile.result.relevantSlots # <<>> THEN "LOW"
          ELSE "NONE")
    /\ getNotificationLevel(notificationFile.result) =
         notificationFile.notificationLevel

\* C14 witness: a result that does not notify, with a relevant record that
\* is neither better nor an expected match, is persisted as LOW.
C14_Witness ==
  /\ notificationFile # NoFile
  /\ ~notificationFile.result.hasRelevantSlots
  /\ notificationFile.result.relevantSlots # <<>>
  /\ notificationFile.notificationLevel = "LOW"

(***************************************************************************)
(* Properties of the email step of a check (checked under Spec and         *)
(* SpecNoRecipients).                                                      *)
(***************************************************************************)
\* config.json lists at least one email recipient.
RecipientsConfigured ==
  IF configFile = NoFile THEN FALSE
  ELSE configFile.email.present /\ configFile.email.to # <<>>

\* The check `cycle` returns in this step.
ReturnsNow(cycle) == cycles' = cycles (-) One(cycle)

\* The check `cycle` calls sendEmailNotification in this step and awaits
\* the provider.
CallsProvider(cycle, next) ==
  /\ cycle.pc = "crawl"
  /\ next.pc = "email"
  /\ cycles' = (cycles (-) One(cycle)) (+) One(next)

\* C15 (as claimed): a check calls the email collaborator exactly once if
\* its result has hasRelevantSlots and email recipients are configured,
\* and not at all otherwise; no check calls it more than once, and the call
\* comes only after the check has written both of its files.
C15_EmailExactlyOnce ==
  [][\A cycle \in InFlight :
       /\ (cycle.pc = "crawl" /\ ReturnsNow(cycle)) =>
            lastCheck'.emailCalls =
              (IF /\ lastCheck'.outcome = "completed"
                  /\ notificationFile'.result.hasRelevantSlots
                  /\ RecipientsConfigured
               THEN 1 ELSE 0)
       /\ \A next \in BagToSet(cycles') :
            CallsProvider(cycle, next) =>
              /\ RecipientsConfigured
              /\ next.notificationResult.hasRelevantSlots
              /\ resultsFile' = jsonOutput(next.crawlerResult)
              /\ notificationFile'.result = next.notificationResult
       /\ (cycle.pc = "email" /\ ReturnsNow(cycle)) =>
            /\ lastCheck'.emailCalls = 1
            /\ lastCheck'.wroteResults
            /\ lastCheck'.wroteNotification
            /\ cycle.notificationResult.hasRelevantSlots
            /\ RecipientsConfigured]_vars

\* C17 (as claimed): when the configured recipient list is empty, no check
\* attempts an email dispatch, even when its result has hasRelevantSlots.
C17_NoRecipientsNoDispatch ==
  (configFile # NoFile /\ configFile.email.to = <<>>) =>
    /\ \A cycle \in InFlight : cycle.pc # "email"
    /\ lastCheck.emailCalls = 0

\* C16: a check whose email dispatch fails (sendEmailNotification returns
\* false, whether the provider refused or the credentials could not be
\* loaded) completes normally: it made one call and no second one, the
\* service's isRunning and armed timers are as they were, and a start()
\* awaiting the check goes on to arm its timer.
C16_EmailFailureContained ==
  [][\A cycle \in InFlight :
       (ReturnsNow(cycle) /\ lastCheck'.emailSent = "false") =>
         /\ lastCheck'.outcome = "completed"
         /\ lastCheck'.emailCalls = 1
         /\ lastCheck'.wroteResults /\ lastCheck'.wroteNotification
         /\ isRunning' = isRunning
         /\ timers \subseteq timers'
         /\ IF cycle.byStart THEN intervalId' \in timers'
                             ELSE intervalId' = intervalId]_vars

\* C16 witness: the last check's dispatch failed and the service is
\* running with its timer armed.
C16_Witness ==
  /\ lastCheck.emailSent = "false"
  /\ lastCheck.outcome = "completed"
  /\ isRunning
  /\ intervalId \in timers

(***************************************************************************)
(* Properties of start() and stop() (checked under Spec).                  *)
(***************************************************************************)
\* A start() begins its initial check.
StartBegins == cycles' = cycles (+) One(NewCycle(TRUE))

\* C18: while the service is running (also while an earlier start() still
\* awaits its initial check) start() returns at once: no step from a
\* running state begins an initial check or changes isRunning other than
\* by stop(), and start() does not fail; while it is stopped, stop()
\* returns at once: no step from a stopped state clears a timer or the
\* timer handle, and stop() does not fail.
C18_StartStopNoOps ==
  /\ [][/\ isRunning => ~StartBegins
        /\ ~isRunning =>
             /\ timers \subseteq timers'
             /\ intervalId # NoTimer => intervalId' # NoTimer]_vars
  /\ [](/\ isRunning => (ENABLED StartWhileRunning /\ ~ENABLED Start)
        /\ ~isRunning => (ENABLED StopWhileStopped /\ ~ENABLED Stop))

\* C18 witness: the service is running and the start() that set it running
\* still awaits its initial check, no timer armed yet.
C18_Witness ==
  /\ isRunning
  /\ intervalId = NoTimer
  /\ timers = {}
  /\ \E cycle \in InFlight : cycle.byStart /\ cycle.pc = "sleep"

\* C19 (as claimed): when config.json is missing or unparseable as start()
\* runs its initial check, startup is aborted: the service does not end up
\* running with an armed timer.
C19_StartupAbortsWithoutConfig ==
  [][\A cycle \in InFlight :
       (cycle.byStart /\ ReturnsNow(cycle) /\ configFile = NoFile) =>
         ~(isRunning' /\ intervalId' \in timers')]_vars

\* C20: a check begun by the timer that fails (every scrape attempt
\* rejected, config.json unreadable, or an exception after the results
\* were saved) returns normally and sends no email; isRunning, the armed
\* timers, the timer handle, config.json and the notification result file
\* are as they were and the other checks in flight are untouched, so what
\* the service can do next is what it could do before; and every armed
\* timer can fire whenever a check can begin.
C20_FailureEndsOnlyThatCheck ==
  /\ [][\A cycle \in InFlight :
          (/\ ~cycle.byStart
           /\ ReturnsNow(cycle)
           /\ lastCheck'.outcome \in {"error", "exhausted"}) =>
            /\ isRunning' = isRunning
            /\ timers' = timers
            /\ intervalId' = intervalId
            /\ configFile' = configFile
            /\ notificationFile' = notificationFile
            /\ lastCheck'.emailCalls = 0
            /\ ~lastCheck'.wroteNotification]_vars
  /\ [](\A t \in timers : CanBegin => ENABLED TimerFires(t))

\* C20 witness: the last check failed after it had saved the results, no
\* other check is in flight, and the service is running with its timer
\* armed.
C20_Witness ==
  /\ lastCheck.outcome = "error"
  /\ lastCheck.wroteResults
  /\ cycles = EmptyBag
  /\ isRunning
  /\ intervalId \in timers

(***************************************************************************)
(* Properties of a check's files and of checks that follow one another     *)
(* (checked under Spec).                                                   *)
(***************************************************************************)
\* C21 (as claimed): a check that got a scrape result and failed to write
\* results.json or notification-result.json continues: it still reaches
\* its email decision and ends as a completed check.
C21_WriteFailureContinues ==
  [][\A cycle \in InFlight :
       (/\ cycle.pc = "crawl"
        /\ ReturnsNow(cycle)
        /\ lastCheck'.outcome # "exhausted"
        /\ ~lastCheck'.wroteResults \/ ~lastCheck'.wroteNotification) =>
         lastCheck'.outcome = "completed"]_vars

(***************************************************************************)
(* Properties of the filter over malformed records (checked under          *)
(* SpecMalformed).                                                         *)
(***************************************************************************)
\* The record has its name and its distance.
WellFormed(location) ==
  location.name # Undefined /\ location.distance # Undefined

\* C22 (as claimed): a record without a name or without a distance in the
\* availability list does not abort the classification: no exception
\* leaves the pass, and every record that has its fields and matches a
\* rule is in relevantSlots.
C22_MalformedRecordIsolated ==
  RunnerDone =>
    /\ runner.pc # "failed"
    /\ \A k \in 1..Len(resultsFile.availableLocations) :
         LET location == resultsFile.availableLocations[k]
         IN (WellFormed(location) /\ isRelevant(location, configFile)) =>
              InSeq(location, runner.notificationResult.relevantSlots)

(***************************************************************************)
(* Properties of the summary message (checked under SpecRunner).           *)
(***************************************************************************)
\* The parts the message would have if it were chosen from the three
\* counts alone.
PartsByCounts(better, expected, relevant) ==
  (IF better > 0 THEN <<[what |-> "better", count |-> better]>> ELSE <<>>)
  \o (IF expected > 0 THEN <<[what |-> "expected", count |-> expected]>>
      ELSE <<>>)
  \o (IF better = 0 /\ expected = 0 /\ relevant > 0
      THEN <<[what |-> "relevant", count |-> relevant]>> ELSE <<>>)

\* C23 (as claimed): the summary message is chosen from the counts alone,
\* whatever onlyBetterSlots is: the better and expected counts when either
\* is nonzero, otherwise the relevant count when relevantSlots is not empty,
\* and "No relevant slots found." only when relevantSlots is empty.
C23_MessageByCounts ==
  RunnerDone =>
    LET result == runner.notificationResult
        parts == PartsByCounts(Len(result.betterThanExisting),
                               Len(result.matchesExpected),
                               Len(result.relevantSlots))
    IN /\ result.summary.message.found = (Len(result.relevantSlots) > 0)
       /\ result.summary.message.parts = parts

(***************************************************************************)
(* Properties of consecutive checks (checked under SpecEmail).             *)
(***************************************************************************)
\* The check `cycle`, at a scrape attempt, goes on or ends in this step.
LeavesCrawl(cycle) ==
  /\ cycle.pc = "crawl"
  /\ CopiesIn(cycle, cycles') < CopiesIn(cycle, cycles)

\* It ends as a completed check.
Completes(cycle) ==
  /\ lastCheck'.outcome = "completed"
  /\ lastCheck'.attempts = cycle.attempt
  /\ \A next \in BagToSet(cycles') :
       CopiesIn(next, cycles') <= CopiesIn(next, cycles)

\* It goes on as `next`, awaiting the email provider.
AwaitsProvider(cycle, next) ==
  /\ next.pc = "email"
  /\ next.attempt = cycle.attempt
  /\ CopiesIn(next, cycles') > CopiesIn(next, cycles)

\* The check `cycle` gets past both writes in this step.
WritesBoth(cycle) ==
  /\ LeavesCrawl(cycle)
  /\ \/ Completes(cycle)
     \/ \E next \in BagToSet(cycles') : AwaitsProvider(cycle, next)

\* The check `cycle` dispatches as the result `written` and config.json
\* say.
DispatchesBy(cycle, written) ==
  IF written.hasRelevantSlots /\ configFile.email.present
  THEN \/ Completes(cycle) /\ lastCheck'.emailCalls = 1
       \/ \E next \in BagToSet(cycles') :
            /\ AwaitsProvider(cycle, next)
            /\ next.notificationResult = written
  ELSE Completes(cycle) /\ lastCheck'.emailCalls = 0

\* The check `cycle` classifies the results file it leaves, and dispatches
\* by that classification.
DecidesBySavedScrape(cycle) ==
  /\ notificationFile'.result =
       filterResultsForNotification(resultsFile',
                                    loadNotificationConfig(configFile))
  /\ notificationFile'.notificationLevel =
       getNotificationLevel(notificationFile'.result)
  /\ DispatchesBy(cycle, notificationFile'.result)

\* C24: there is no deduplication.  What a check that wrote both files
\* classifies, and whether it calls sendEmailNotification, follows from the
\* scrape it saved and config.json alone: the files, the result and the
\* dispatch left by earlier checks change nothing, so a check whose scrape
\* repeats the previous one's dispatches again.
C24_NoDeduplication ==
  [][\A cycle \in InFlight :
       WritesBoth(cycle) => DecidesBySavedScrape(cycle)]_vars

\* C24 witness: an earlier check has ended after its call of
\* sendEmailNotification, and a timer-driven check awaits the provider for
\* the result that notification-result.json holds (one scrape only leads to
\* a dispatch, so both checks had it).
C24_Witness ==
  /\ lastCheck.outcome = "completed"
  /\ lastCheck.emailCalls = 1
  /\ \E cycle \in InFlight :
       /\ cycle.pc = "email"
       /\ ~cycle.byStart
       /\ notificationFile.result = cycle.notificationResult

(***************************************************************************)
(* Properties of stop() (checked under Spec).                              *)
(***************************************************************************)
\* A check begun by the setInterval callback begins in this step.
TimerCheckBegins == cycles' = cycles (+) One(NewCycle(FALSE))

\* C25 (as claimed): stop() cancels the timer.  After stop() has returned
\* and until start() is called again (the service is not running), no check
\* is begun by the timer, also when stop() was called while start() was
\* awaiting its initial check.
C25_NoTimerCheckAfterStop ==
  [][TimerCheckBegins => isRunning]_vars

\* stop() is called in this step while the check `cycle` sleeps between
\* two scrape attempts.
StopsWhileSleeping(cycle) ==
  cycle.pc = "sleep" /\ isRunning /\ ~isRunning'

\* C26 (as claimed): the sleep between scrape attempts is cancelled by
\* stop(): once stop() has been called while a check sleeps, that check
\* cannot go to a further scrape attempt; and a sleeping check never keeps
\* stop() from returning.
C26_BackoffCancellable ==
  /\ [][\A cycle \in InFlight :
         StopsWhileSleeping(cycle) => ~(ENABLED SleepEnds(cycle))']_vars
  /\ [](isRunning => ENABLED Stop)

(***************************************************************************)
(* Properties of the report (checked under SpecRunner).                    *)
(***************************************************************************)
\* C27 (as claimed): for a result with hasRelevantSlots, the "other
\* relevant" section of the text report lists the records of relevantSlots
\* that are in neither of the two other lists, in order, also when a record
\* is in both lists; the email text built from the result lists the same.
C27_OtherRelevantSection ==
  (RunnerDone /\ runner.notificationResult.hasRelevantSlots) =>
    /\ reportOtherSection(runner.notificationResult)
         = otherSlots(runner.notificationResult)
    /\ reportOtherSection(runner.notificationResult)
         = emailOtherSection(runner.notificationResult)

(***************************************************************************)
(* Properties of the timer (checked under Spec).                           *)
(***************************************************************************)
\* C28 (as claimed): in every reachable state at most one repeating timer
\* is armed, and a timer is armed only while the service is running
\* (intervalId is set only while isRunning), whatever the order of the
\* start() and stop() calls.
C28_OneTimerWhileRunning ==
  /\ Cardinality(timers) <= 1
  /\ timers # {} => isRunning
  /\ intervalId # NoTimer => isRunning

(***************************************************************************)
(* Properties of the two files under overlapping checks (checked under     *)
(* SpecEmail).                                                             *)
(***************************************************************************)
\* What a check with this scrape has to classify.
OwnResult(crawlerResult) ==
  filterResultsForNotification(jsonOutput(crawlerResult),
                               loadNotificationConfig(configFile))

\* C29: a check classifies the scrape it obtained itself.  The step that
\* saves a check's scrape also reads it back and writes the notification
\* result, so no other check's write comes between; and the result a check
\* holds while it awaits the email provider is the classification of its
\* own scrape, whatever other checks have written since.
C29_ClassifiesOwnScrape ==
  /\ [][\A cycle \in InFlight :
         WritesBoth(cycle) =>
           /\ notificationFile'.result =
                filterResultsForNotification(
                  resultsFile', loadNotificationConfig(configFile))
           /\ \A next \in BagToSet(cycles') :
                AwaitsProvider(cycle, next) =>
                  /\ resultsFile' = jsonOutput(next.crawlerResult)
                  /\ next.notificationResult = notificationFile'.result]_vars
  /\ [](\A cycle \in InFlight :
          cycle.pc = "email" =>
            cycle.notificationResult = OwnResult(cycle.crawlerResult))

\* C29 witness: a check awaits the email provider for its own scrape while
\* another check has since overwritten both files with a different scrape.
C29_Witness ==
  \E cycle \in InFlight :
    /\ cycle.pc = "email"
    /\ resultsFile # NoFile
    /\ resultsFile # jsonOutput(cycle.crawlerResult)
    /\ notificationFile.result # cycle.notificationResult
    /\ cycle.notificationResult = OwnResult(cycle.crawlerResult)

(***************************************************************************)
(* Structure of a NotificationResult (checked under SpecRunner).           *)
(***************************************************************************)
\* The records of `sub` are records of `seq`, in the order of `seq`:
\* sub[1..m] is found within seq[1..n].
RECURSIVE IsSubSeqUpTo(_, _, _, _)
IsSubSeqUpTo(sub, seq, m, n) ==
  IF m = 0 THEN TRUE
  ELSE IF n = 0 THEN FALSE
  ELSE IF sub[m] = seq[n] THEN IsSubSeqUpTo(sub, seq, m - 1, n - 1)
  ELSE IsSubSeqUpTo(sub, seq, m, n - 1)

IsSubSeq(sub, seq) == IsSubSeqUpTo(sub, seq, Len(sub), Len(seq))

\* C30: in every NotificationResult betterThanExisting and matchesExpected
\* are order-preserving sub-sequences of relevantSlots, relevantSlots is an
\* order-preserving sub-sequence of the availableLocations read, the three
\* counts of the summary are the lengths of the three lists, and a result
\* that notifies has a non-empty relevantSlots (its level is not NONE).
C30_ResultStructure ==
  notificationFile # NoFile =>
    /\ IsSubSeq(notificationFile.result.betterThanExisting,
                notificationFile.result.relevantSlots)
    /\ IsSubSeq(notificationFile.result.matchesExpected,
                notificationFile.result.relevantSlots)
    /\ IsSubSeq(notificationFile.result.relevantSlots,
                resultsFile.availableLocations)
    /\ notificationFile.result.summary.totalRelevantSlots =
         Len(notificationFile.result.relevantSlots)
    /\ notificationFile.result.summary.betterSlotsCount =
         Len(notificationFile.result.betterThanExisting)
    /\ notificationFile.result.summary.expectedMatchesCount =
         Len(notificationFile.result.matchesExpected)
    /\ notificationFile.result.hasRelevantSlots =>
         /\ notificationFile.result.relevantSlots # <<>>
         /\ notificationFile.notificationLevel # "NONE"
         /\ getNotificationLevel(notificationFile.result) # "NONE"

\* C30 witness: a result that notifies, written from two available
\* records that are both relevant, of which the second alone is better
\* than the existing booking.
C30_Witness ==
  /\ notificationFile # NoFile
  /\ notificationFile.result.hasRelevantSlots
  /\ Len(resultsFile.availableLocations) = 2
  /\ notificationFile.result.relevantSlots = resultsFile.availableLocations
  /\ notificationFile.result.betterThanExisting =
       << resultsFile.availableLocations[2] >>

====
